---- MODULE Spec2Model ----
(***************************************************************************)
(* Quota gate and prompt pipeline of the ai-prompt server.                 *)
(*                                                                         *)
(* State: the MemStorage user map and id counter (server/storage.ts), the  *)
(* wall clock, the plan list, and the HTTP requests in flight (a bag:     *)
(* requests carry no identity beyond their state).  Every handler is an   *)
(* async function; it is cut into one action per stretch of code between  *)
(* two awaits, so that requests interleave at every await on the store.   *)
(* A call of an async store method runs synchronously up to the method's   *)
(* first await: getUser reads the map at the call, updateUser and          *)
(* updateUserSubscription read the map at the call and write it one        *)
(* resumption later.                                                       *)
(*                                                                         *)
(* Nullable values (number | null, Date | null, User | undefined) are sets *)
(* of at most one element: {} is null/undefined, {v} is the value v.       *)
(***************************************************************************)
EXTENDS Integers, Sequences, FiniteSets, Bags, TLC

\* ---------------------------------------------------------------- bounds
MaxInFlight == 2      \* handlers that can be in flight at once
MaxUsers == 2         \* accounts that registration may create
MaxIssued == 2        \* requests issued over a run of Spec
SeqIssued == 8        \* requests issued over a run of SeqSpec
MaxTicks == 2         \* clock advances over a run

\* ------------------------------------------------------------- constants
DAY_MS == 24 * 60 * 60 * 1000
TickMs == DAY_MS
DefaultRequests == 5

Null == {}
Some(v) == {v}
Val(x) == CHOOSE v \in x : TRUE

VARIABLES plans, users, currentId, now, reqs, resp, passed, window, budget

vars == <<plans, users, currentId, now, reqs, resp, passed, window, budget>>

UserIds == 1..MaxUsers

\* ------------------------------------------------------------ plan registry
subscriptionTiers == {"free", "basic", "premium", "enterprise"}

\* the same list with the last entry copied from the one before it, its id
\* not changed
PlanConfigCopied ==
  <<[id |-> "free",    requestsPerDay |-> 5,    stripe_price_id |-> ""],
    [id |-> "basic",   requestsPerDay |-> 100,  stripe_price_id |-> "price_basic"],
    [id |-> "premium", requestsPerDay |-> 9999, stripe_price_id |-> "price_premium"],
    [id |-> "premium", requestsPerDay |-> 9999, stripe_price_id |-> "price_enterprise"]>>

\* this.plans = [...] of the constructor
PlanConfig ==
  <<[id |-> "free",       requestsPerDay |-> 5,    stripe_price_id |-> ""],
    [id |-> "basic",      requestsPerDay |-> 100,  stripe_price_id |-> "price_basic"],
    [id |-> "premium",    requestsPerDay |-> 9999, stripe_price_id |-> "price_premium"],
    [id |-> "enterprise", requestsPerDay |-> 9999, stripe_price_id |-> "price_enterprise"]>>

\* this.plans.find(plan => plan.id === id): the first plan with the id, or undefined
getPlanById(id) ==
  LET hits == {i \in DOMAIN plans : plans[i].id = id}
  IN  IF hits = {} THEN Null
      ELSE Some(plans[CHOOSE i \in hits : \A j \in hits : i <= j])

\* !plan.stripe_price_id || plan.stripe_price_id.startsWith('price_')
PlaceholderPrice(plan) ==
  plan.stripe_price_id = "" \/ plan.stripe_price_id \in {"price_basic", "price_premium", "price_enterprise"}

\* ------------------------------------------------------------ account store
\* this.users.get(id)
getUser(id) == IF id \in DOMAIN users THEN Some(users[id]) ELSE Null

\* Array.from(this.users.values()).find(user => user.email === email)
getUserByEmail(email) == {users[u] : u \in {i \in DOMAIN users : users[i].email = email}}

\* the record createUser builds: (tier || "free"), 5 requests, no reset time
NewUser(email, tier) ==
  [email |-> email,
   subscription_tier |-> IF tier = "" THEN "free" ELSE tier,
   requests_remaining |-> Some(DefaultRequests),
   requests_reset |-> Null]

\* { ...user, ...userData }
Merge(user, userData) ==
  [f \in DOMAIN user |-> IF f \in DOMAIN userData THEN userData[f] ELSE user[f]]

\* a tier change that keeps the counter and the reset time
ResubscribedTierOnly(user, tier, t) == [user EXCEPT !.subscription_tier = tier]

\* updateUserSubscription's record: the tier, and the plan's allotment when a plan exists
Resubscribed(user, tier, t) ==
  LET plan == getPlanById(tier)
      updatedUser == [user EXCEPT !.subscription_tier = tier]
  IN  IF plan # Null
        THEN [updatedUser EXCEPT !.requests_remaining = Some(Val(plan).requestsPerDay),
                                 !.requests_reset = Some(t + DAY_MS)]
        ELSE updatedUser

\* --------------------------------------------------------- gate predicates
\* JavaScript truthiness of a number | null: null and 0 are falsy
Truthy(x) == x # Null /\ Val(x) # 0

\* the check with null counted as 0: (user.requests_remaining ?? 0) <= 0
ExhaustedNullAsZero(user) ==
  user.requests_remaining = Null \/ Val(user.requests_remaining) <= 0

\* user.requests_remaining && user.requests_remaining <= 0
Exhausted(user) == Truthy(user.requests_remaining) /\ Val(user.requests_remaining) <= 0

\* user.requests_reset && new Date() > user.requests_reset
ResetDue(user, t) == user.requests_reset # Null /\ t > Val(user.requests_reset)

\* the check written as "!== null": 0 is decremented too
NeedsDecrementNonNull(user) == user.requests_remaining # Null

\* if (user.requests_remaining)
NeedsDecrement(user) == Truthy(user.requests_remaining)

\* the update without the "- 1"
DecrementDataSame(user) == [requests_remaining |-> user.requests_remaining]

\* the update with "+ 1" for "- 1"
DecrementDataUp(user) == [requests_remaining |-> Some(Val(user.requests_remaining) + 1)]

\* { requests_remaining: user.requests_remaining - 1 }
DecrementData(user) == [requests_remaining |-> Some(Val(user.requests_remaining) - 1)]

\* { requests_remaining: plan.requestsPerDay, requests_reset: now + 24h }
ResetData(plan, t) ==
  [requests_remaining |-> Some(plan.requestsPerDay), requests_reset |-> Some(t + DAY_MS)]

\* ------------------------------------------------------------- requests
\* Every request carries the calls it has made on the user map, in order
\* (ops): "getUser", "getUserByEmail" for a read, "set" for this.users.set.
NoData == [f \in {} |-> Null]

\* bookkeeping per account: window[u] is the operation that last set the
\* counter of u to an allotment, and that allotment; passed[u] counts the
\* requests checkSubscription has let through (next()) since then
Window(by, amount) == [by |-> by, amount |-> amount]
NoWindow == Window("", Null)

IdleReq ==
  [kind |-> "none", pc |-> "idle", uid |-> 0, user |-> Null, uread |-> Null,
   data |-> NoData, cont |-> "", status |-> 0, msg |-> "", stages |-> << >>,
   adapter |-> "", provider |-> "", valid |-> FALSE, email |-> "", tier |-> "",
   allowed |-> FALSE, authed |-> FALSE, due |-> FALSE, ops |-> << >>]

\* the requests in flight, and whether one more may be issued when at most
\* cap are in flight at once
InFlight == BagToSet(reqs)
Room(cap) == BagCardinality(reqs) < cap

\* res.status(code).json({message}) ends the request
Respond(q, code, m) ==
  [q EXCEPT !.pc = "done", !.status = code, !.msg = m, !.uread = Null,
            !.data = NoData, !.cont = ""]

\* the request q (IdleReq: a request that arrives) becomes q2; a request
\* that has answered is no longer in flight.  resp is the answer the latest
\* step has sent: the answered request, or IdleReq when the step sent none
Commit(q, q2) ==
  LET rest == reqs (-) SetToBag({q})
  IN  IF q2.pc = "done"
        THEN reqs' = rest /\ resp' = q2
        ELSE reqs' = rest (+) SetToBag({q2}) /\ resp' = IdleReq

\* Authorization header of a request: absent, not verifiable, or a verified
\* payload with an id: 0 (a payload without id), the id of an account, or
\* the next id (an id without account)
Tokens ==
  {[present |-> FALSE, ok |-> FALSE, id |-> 0], [present |-> TRUE, ok |-> FALSE, id |-> 0]}
  \cup {[present |-> TRUE, ok |-> TRUE, id |-> i] : i \in 0..currentId}

\* authenticateToken calling next() whatever the token
authenticateTokenAlways(q, tok) ==
  [q EXCEPT !.stages = Append(@, "authenticate"), !.uid = tok.id]

\* authenticateToken: 401 without token, 403 on a verify error, else req.user = payload
authenticateToken(q, tok) ==
  LET q1 == [q EXCEPT !.stages = Append(@, "authenticate")]
  IN  IF ~tok.present THEN Respond(q1, 401, "Authentication required")
      ELSE IF ~tok.ok THEN Respond(q1, 403, "Invalid or expired token")
      ELSE [q1 EXCEPT !.uid = tok.id]

\* the server after construction: no account, ids start at 1
Boot ==
  /\ plans = PlanConfig
  /\ users = [u \in {} |-> NewUser("", "")]
  /\ currentId = 1
  /\ now = 0
  /\ reqs = EmptyBag
  /\ resp = IdleReq
  /\ passed = [u \in UserIds |-> 0]
  /\ window = [u \in UserIds |-> NoWindow]
  /\ budget = SeqIssued

\* the clock advances
Tick ==
  /\ now < MaxTicks * TickMs
  /\ now' = now + TickMs
  /\ resp' = IdleReq
  /\ UNCHANGED <<plans, users, currentId, reqs, passed, window, budget>>

\* ------------------------------------------------------- POST /api/prompt
Providers == {"openai", "gemini", "deepseek", "anthropic", ""}
\* a switch whose default case dispatches too
DispatchableAny(provider) == TRUE

\* the cases of the provider switch
Dispatchable(provider) == provider \in {"openai", "gemini", "deepseek"}
\* req.body: provider, and whether model and prompt are non-empty strings
Bodies ==
  [provider : Providers \ {""}, rest : {TRUE}]
  \cup {[provider |-> "", rest |-> TRUE], [provider |-> "openai", rest |-> FALSE],
        [provider |-> "anthropic", rest |-> FALSE]}
\* promptSchema.parse: provider, model and prompt all z.string().min(1)
ValidBody(body) == body.provider # "" /\ body.rest

\* the route handler after checkSubscription called next(): validate, then
\* switch on the provider up to the adapter's await
Handler(q, body) ==
  LET q1 == [q EXCEPT !.allowed = TRUE, !.stages = Append(@, "validate"),
                      !.provider = body.provider, !.valid = ValidBody(body),
                      !.uread = Null, !.data = NoData, !.cont = ""]
  IN  IF ~ValidBody(body) THEN Respond(q1, 400, "Validation error")
      ELSE LET q2 == [q1 EXCEPT !.stages = Append(@, "dispatch")]
           IN  IF Dispatchable(body.provider)
                 THEN [q2 EXCEPT !.pc = "adapter", !.adapter = body.provider]
                 ELSE Respond(q2, 400, "Unsupported provider")

\* storage.updateUser(userId, userData) up to its await: the record is read now
CallUpdateUser(q, userData, cont) ==
  [q EXCEPT !.pc = "updWrite", !.uread = getUser(q.uid), !.data = userData, !.cont = cont,
            !.ops = Append(@, "getUser")]

\* checkSubscription from "Decrement request counter" on: the results it can have
Decrement(q) ==
  IF NeedsDecrement(Val(q.user))
    THEN {CallUpdateUser(q, DecrementData(Val(q.user)), "decrement")}
    ELSE {Handler(q, body) : body \in Bodies}

\* checkSubscription after "await storage.getUser(userId)"
Gate(q, t) ==
  IF q.user = Null THEN {Respond(q, 404, "User not found")}
  ELSE LET user == Val(q.user)
           plan == getPlanById(user.subscription_tier)
       IN  IF Exhausted(user)
             THEN IF ResetDue(user, t)
                    THEN IF plan # Null
                           THEN {CallUpdateUser(q, ResetData(Val(plan), t), "reset")}
                           ELSE Decrement(q)
                    ELSE {Respond(q, 429, "Request limit reached")}
             ELSE Decrement(q)

\* a request is between its first read and its last write of account u
InStore(q, u) ==
  /\ q.uid = u
  /\ \/ q.kind = "prompt" /\ q.pc \in {"gotUser", "updWrite", "updDone"}
     \/ q.kind = "subscribe" /\ q.pc \in {"subGotUser", "subWrite"}

\* passed' after the request q became q2: next() was called if q2 is allowed and q was not
Passed(q, q2) ==
  [u \in UserIds |-> IF u = q.uid /\ q2.allowed /\ ~q.allowed THEN passed[u] + 1 ELSE passed[u]]

\* a guard that lets every request on
NoIdentityNever(userId) == FALSE

\* !userId, for the id of the token's payload (0: no id)
NoIdentity(userId) == userId = 0

\* the request arrives: authenticateToken, then checkSubscription up to its first await
PromptArrive(cap) ==
  /\ Room(cap)
  /\ budget > 0
  /\ budget' = budget - 1
  /\ \E tok \in Tokens :
       LET q0 == [IdleReq EXCEPT !.kind = "prompt", !.authed = tok.present /\ tok.ok]
           q1 == authenticateToken(q0, tok)
           q2 == [q1 EXCEPT !.stages = Append(@, "gate")]
       IN  IF q1.pc = "done" THEN Commit(IdleReq, q1)
           ELSE IF NoIdentity(q1.uid) THEN Commit(IdleReq, Respond(q2, 401, "User not authenticated"))
           ELSE Commit(IdleReq, [q2 EXCEPT !.pc = "gotUser", !.user = getUser(q2.uid),
                                          !.ops = Append(@, "getUser")])
  /\ UNCHANGED <<plans, users, currentId, now, passed, window>>

\* checkSubscription resumes with the user it read
GateDecide(q) ==
  /\ q.kind = "prompt" /\ q.pc = "gotUser"
  /\ \E q2 \in Gate([q EXCEPT !.due = q.user # Null /\ ResetDue(Val(q.user), now)], now) :
       /\ Commit(q, q2)
       /\ passed' = Passed(q, q2)
  /\ UNCHANGED <<plans, users, currentId, now, window, budget>>

\* updateUser storing the record under the id createUser gave last
UpdateUserWriteLast(q) ==
  /\ q.kind = "prompt" /\ q.pc = "updWrite"
  /\ IF q.uread = Null
       THEN /\ Commit(q, Respond(q, 500, "Failed to verify subscription status"))
            /\ UNCHANGED <<users, passed, window>>
       ELSE /\ users' = [users EXCEPT ![currentId - 1] = Merge(Val(q.uread), q.data)]
            /\ Commit(q, [q EXCEPT !.pc = "updDone", !.uread = Null, !.ops = Append(@, "set")])
            /\ UNCHANGED <<passed, window>>
  /\ UNCHANGED <<plans, currentId, now, budget>>

\* updateUser resumes after its getUser: throws for a missing user, else
\* stores { ...user, ...userData }
UpdateUserWrite(q) ==
  /\ q.kind = "prompt" /\ q.pc = "updWrite"
  /\ IF q.uread = Null
       THEN /\ Commit(q, Respond(q, 500, "Failed to verify subscription status"))
            /\ UNCHANGED <<users, passed, window>>
       ELSE /\ users' = [users EXCEPT ![q.uid] = Merge(Val(q.uread), q.data)]
            /\ Commit(q, [q EXCEPT !.pc = "updDone", !.uread = Null, !.ops = Append(@, "set")])
            /\ IF q.cont = "reset"
                 THEN /\ passed' = [passed EXCEPT ![q.uid] = 0]
                      /\ window' = [window EXCEPT ![q.uid] = Window("checkSubscription", q.data.requests_remaining)]
                 ELSE UNCHANGED <<passed, window>>
  /\ UNCHANGED <<plans, currentId, now, budget>>

\* the quota check made after the decrement instead of before it
GateResumeChecked(q) ==
  /\ q.kind = "prompt" /\ q.pc = "updDone"
  /\ \E q2 \in (IF q.cont = "reset" THEN Decrement(q)
               ELSE IF Val(q.data.requests_remaining) <= 0
                      THEN {Respond(q, 429, "Request limit reached")}
                      ELSE {Handler(q, body) : body \in Bodies}) :
       /\ Commit(q, q2)
       /\ passed' = Passed(q, q2)
  /\ UNCHANGED <<plans, users, currentId, now, window, budget>>

\* checkSubscription resumes after "await storage.updateUser(...)"
GateResume(q) ==
  /\ q.kind = "prompt" /\ q.pc = "updDone"
  /\ \E q2 \in (IF q.cont = "reset" THEN Decrement(q) ELSE {Handler(q, body) : body \in Bodies}) :
       /\ Commit(q, q2)
       /\ passed' = Passed(q, q2)
  /\ UNCHANGED <<plans, users, currentId, now, window, budget>>

\* a catch that gives the request back: the record the gate read is stored again
AdapterReturnRefund(q) ==
  /\ q.kind = "prompt" /\ q.pc = "adapter"
  /\ \E ok \in BOOLEAN :
       /\ Commit(q, IF ok THEN Respond(q, 200, "ok")
                    ELSE Respond(q, 500, "Provider error"))
       /\ users' = IF ok THEN users ELSE [users EXCEPT ![q.uid] = Val(q.user)]
  /\ UNCHANGED <<plans, currentId, now, passed, window, budget>>

\* the provider adapter returns a response or throws
AdapterReturn(q) ==
  /\ q.kind = "prompt" /\ q.pc = "adapter"
  /\ \E ok \in BOOLEAN :
       Commit(q, IF ok THEN Respond(q, 200, "ok")
                 ELSE Respond(q, 500, "Provider error"))
  /\ UNCHANGED <<plans, users, currentId, now, passed, window, budget>>

\* ------------------------------------------------- POST /api/auth/register
Emails == {"a@x.io", "b@x.io"}
\* subscription_tier of the body: absent (""), or a string
RegTiers == {"", "basic", "gold"}

\* the registrations in flight
Registering ==
  BagCardinality([q \in {x \in InFlight : x.kind = "register"} |-> reqs[q]])

\* insertUserSchema.parse(req.body), then getUserByEmail up to its await
RegisterArrive(cap) ==
  /\ Room(cap)
  /\ budget > 0
  /\ currentId + Registering <= MaxUsers
  /\ budget' = budget - 1
  /\ \E ok \in BOOLEAN, email \in Emails, tier \in RegTiers :
       LET q0 == [IdleReq EXCEPT !.kind = "register", !.valid = ok]
       IN  Commit(IdleReq, IF ~ok THEN Respond(q0, 400, "Validation error")
                     ELSE [q0 EXCEPT !.pc = "regLookup", !.email = email, !.tier = tier,
                                     !.user = getUserByEmail(email),
                                     !.ops = Append(@, "getUserByEmail")])
  /\ UNCHANGED <<plans, users, currentId, now, passed, window>>

\* createUser taking the id without the increment: const id = this.currentId
RegisterCreateSameId(q) ==
  /\ q.kind = "register" /\ q.pc = "regLookup"
  /\ IF q.user # Null
       THEN Commit(q, Respond(q, 409, "User with this email already exists"))
       ELSE Commit(q, [q EXCEPT !.pc = "regHash", !.uid = currentId])
  /\ UNCHANGED <<plans, users, currentId, now, passed, window, budget>>

\* the route resumes: 409 for a known email, else createUser up to its
\* await of bcrypt.hash: const id = this.currentId++
RegisterCreate(q) ==
  /\ q.kind = "register" /\ q.pc = "regLookup"
  /\ IF q.user # Null
       THEN /\ Commit(q, Respond(q, 409, "User with this email already exists"))
            /\ UNCHANGED currentId
       ELSE /\ Commit(q, [q EXCEPT !.pc = "regHash", !.uid = currentId])
            /\ currentId' = currentId + 1
  /\ UNCHANGED <<plans, users, now, passed, window, budget>>

\* createUser resumes with the hash: this.users.set(id, user); the route answers 201
RegisterStore(q) ==
  LET user == NewUser(q.email, q.tier) IN
  /\ q.kind = "register" /\ q.pc = "regHash"
  /\ users' = [u \in DOMAIN users \cup {q.uid} |-> IF u = q.uid THEN user ELSE users[u]]
  /\ Commit(q, Respond([q EXCEPT !.user = Some(user), !.ops = Append(@, "set")],
                       201, "User registered successfully"))
  /\ passed' = [passed EXCEPT ![q.uid] = 0]
  /\ window' = [window EXCEPT ![q.uid] = Window("createUser", user.requests_remaining)]
  /\ UNCHANGED <<plans, currentId, now, budget>>

\* -------------------------------------------- POST /api/create-subscription
\* planId of the body: absent (""), a plan id, or any other string
PlanIds == {"", "free", "basic", "premium", "enterprise", "gold"}
\* one planId of each kind the route tells apart: absent, the free plan, a
\* paid plan, no plan
PlanIdKinds == {"", "free", "basic", "gold"}

\* planId === "free": the one plan the route writes without payment
FreePlanAny(planId) == TRUE
FreePlan(planId) == planId = "free"

\* authenticateToken, the planId check, then getUser up to its await
SubscribeArrive(cap, planIds) ==
  /\ Room(cap)
  /\ budget > 0
  /\ budget' = budget - 1
  /\ \E tok \in Tokens, planId \in planIds :
       LET q0 == [IdleReq EXCEPT !.kind = "subscribe", !.tier = planId,
                                 !.authed = tok.present /\ tok.ok]
           q1 == authenticateToken(q0, tok)
       IN  IF q1.pc = "done" THEN Commit(IdleReq, q1)
           ELSE IF planId = "" THEN Commit(IdleReq, Respond(q1, 400, "Plan ID is required"))
           ELSE Commit(IdleReq, [q1 EXCEPT !.pc = "subGotUser", !.user = getUser(q1.uid),
                                          !.ops = Append(@, "getUser")])
  /\ UNCHANGED <<plans, users, currentId, now, passed, window>>

\* the route resumes with the user: 404 without user or plan, the free plan
\* calls updateUserSubscription (which reads the user now), a paid plan with
\* a placeholder price id is refused
SubscribeDecide(q) ==
  LET plan == getPlanById(q.tier) IN
  /\ q.kind = "subscribe" /\ q.pc = "subGotUser"
  /\ Commit(q, IF q.user = Null THEN Respond(q, 404, "User not found")
               ELSE IF plan = Null THEN Respond(q, 404, "Plan not found")
               ELSE IF FreePlan(q.tier) THEN [q EXCEPT !.pc = "subWrite", !.uread = getUser(q.uid),
                                                       !.ops = Append(@, "getUser")]
               ELSE IF PlaceholderPrice(Val(plan)) THEN Respond(q, 400, "DEMO_MODE")
               ELSE Respond(q, 500, "Stripe"))
  /\ UNCHANGED <<plans, users, currentId, now, passed, window, budget>>

\* updateUserSubscription resumes after its getUser and stores the record;
\* the route answers 200
SubscribeWrite(q) ==
  /\ q.kind = "subscribe" /\ q.pc = "subWrite"
  /\ IF q.uread = Null
       THEN /\ Commit(q, Respond(q, 500, "User not found"))
            /\ UNCHANGED <<users, passed, window>>
       ELSE LET updatedUser == Resubscribed(Val(q.uread), q.tier, now)
            IN  /\ users' = [users EXCEPT ![q.uid] = updatedUser]
                /\ Commit(q, Respond([q EXCEPT !.ops = Append(@, "set")],
                                     200, "Subscription updated to free tier"))
                /\ passed' = [passed EXCEPT ![q.uid] = 0]
                /\ window' = [window EXCEPT ![q.uid] = Window("updateUserSubscription", updatedUser.requests_remaining)]
  /\ UNCHANGED <<plans, currentId, now, budget>>

\* ------------------------------------------------------- GET /api/plans
\* storage.getPlans() returns this.plans; the route answers 200 with it
getPlans == plans

ListPlans ==
  /\ budget > 0
  /\ budget' = budget - 1
  /\ LET q0 == [IdleReq EXCEPT !.kind = "plans"]
     IN  Commit(IdleReq, Respond(q0, 200, "plans"))
  /\ UNCHANGED <<plans, users, currentId, now, passed, window>>

\* --------------------------------------------- GET /api/models/:provider
\* this.models of the constructor: an object literal used as a map
models ==
  [openai   |-> <<[id |-> "gpt-4o", name |-> "GPT-4o"], [id |-> "gpt-4", name |-> "GPT-4"],
                  [id |-> "gpt-3.5-turbo", name |-> "GPT-3.5 Turbo"]>>,
   gemini   |-> <<[id |-> "gemini-pro", name |-> "Gemini Pro"],
                  [id |-> "gemini-ultra", name |-> "Gemini Ultra"]>>,
   deepseek |-> <<[id |-> "deepseek-coder", name |-> "DeepSeek Coder"],
                  [id |-> "deepseek-chat", name |-> "DeepSeek Chat"]>>]

\* the property names every object literal inherits from Object.prototype;
\* their values are functions, or the prototype object, all of them truthy
\* and none of them written by res.json
ObjectPrototype ==
  {"constructor", "toString", "valueOf", "hasOwnProperty", "isPrototypeOf",
   "propertyIsEnumerable", "toLocaleString", "__proto__"}
Inherited == << >>

\* this.models[provider]: an own property, an inherited one, or undefined
getModelsByProvider(provider) ==
  IF provider \in DOMAIN models THEN Some(models[provider])
  ELSE IF provider \in ObjectPrototype THEN Some(Inherited)
  ELSE Null

\* req.params.provider: a path segment, never empty
ProviderParams == (Providers \ {""}) \cup {"constructor"}

\* the route: 404 when the lookup is falsy, else 200 with its result
ListModels ==
  /\ budget > 0
  /\ budget' = budget - 1
  /\ \E provider \in ProviderParams :
       LET q0 == [IdleReq EXCEPT !.kind = "models", !.provider = provider]
           found == getModelsByProvider(provider)
       IN  IF found = Null
             THEN Commit(IdleReq, Respond(q0, 404, "Provider not found"))
             ELSE Commit(IdleReq, [Respond(q0, 200, "models") EXCEPT !.data = [models |-> Val(found)]])
  /\ UNCHANGED <<plans, users, currentId, now, passed, window>>

\* ------------------------------------------------------------ specification
\* A quiescent state the server reaches from Boot: no request in flight, and
\* account 1 after k = 5 - requests_remaining passes of the gate.  reset is set when the account went through the free-plan
\* tier change before those passes (which also makes the tier "free").
Quiescent(tier, remaining, reset) ==
  /\ users = [u \in {1} |-> [NewUser("a@x.io", tier) EXCEPT
                               !.requests_remaining = Some(remaining),
                               !.requests_reset = reset]]
  /\ currentId = 2
  /\ passed = [u \in UserIds |-> IF u = 1 THEN DefaultRequests - remaining ELSE 0]
  /\ window = [u \in UserIds |-> IF u = 1 THEN Window(IF reset = Null THEN "createUser" ELSE "updateUserSubscription", Some(DefaultRequests)) ELSE NoWindow]

\* the counters of the seeded account: exhausted, one left, two left
LowRemaining == {0, 1, 2}

Init ==
  /\ plans = PlanConfig
  /\ now = 0
  /\ reqs = EmptyBag
  /\ resp = IdleReq
  /\ budget = MaxIssued
  /\ \E remaining \in LowRemaining :
       \/ \E tier \in {"", "gold"} : Quiescent(tier, remaining, Null)
       \/ Quiescent("free", remaining, Some(DAY_MS))

Next ==
  \/ Tick
  \/ ListPlans
  \/ ListModels
  \/ RegisterArrive(MaxInFlight)
  \/ \E q \in InFlight : RegisterCreate(q)
  \/ \E q \in InFlight : RegisterStore(q)
  \/ PromptArrive(MaxInFlight)
  \/ \E q \in InFlight : GateDecide(q)
  \/ \E q \in InFlight : UpdateUserWrite(q)
  \/ \E q \in InFlight : GateResume(q)
  \/ \E q \in InFlight : AdapterReturn(q)
  \/ SubscribeArrive(MaxInFlight, PlanIds)
  \/ \E q \in InFlight : SubscribeDecide(q)
  \/ \E q \in InFlight : SubscribeWrite(q)

\* the requests on the accounts there are, and the plan list
NextOnAccounts ==
  \/ Tick
  \/ ListPlans
  \/ PromptArrive(MaxInFlight)
  \/ \E q \in InFlight : GateDecide(q)
  \/ \E q \in InFlight : UpdateUserWrite(q)
  \/ \E q \in InFlight : GateResume(q)
  \/ \E q \in InFlight : AdapterReturn(q)
  \/ SubscribeArrive(MaxInFlight, PlanIdKinds)
  \/ \E q \in InFlight : SubscribeDecide(q)
  \/ \E q \in InFlight : SubscribeWrite(q)

\* concurrent requests on an account that exists
Spec == Init /\ [][NextOnAccounts]_vars

\* concurrent requests from construction: the registrations of the first
\* accounts and what follows them
InitReg ==
  /\ plans = PlanConfig
  /\ users = [u \in {} |-> NewUser("", "")]
  /\ currentId = 1
  /\ now = 0
  /\ reqs = EmptyBag
  /\ resp = IdleReq
  /\ passed = [u \in UserIds |-> 0]
  /\ window = [u \in UserIds |-> NoWindow]
  /\ budget = MaxIssued

RegSpec == InitReg /\ [][Next]_vars

\* one account and one request at a time, from construction: every handler
\* runs to its response before the next request is issued
NextSeq ==
  \/ Tick
  \/ ListPlans
  \/ currentId = 1 /\ RegisterArrive(1)
  \/ \E q \in InFlight : RegisterCreate(q)
  \/ \E q \in InFlight : RegisterStore(q)
  \/ PromptArrive(1)
  \/ \E q \in InFlight : GateDecide(q)
  \/ \E q \in InFlight : UpdateUserWrite(q)
  \/ \E q \in InFlight : GateResume(q)
  \/ \E q \in InFlight : AdapterReturn(q)
  \/ SubscribeArrive(1, PlanIds)
  \/ \E q \in InFlight : SubscribeDecide(q)
  \/ \E q \in InFlight : SubscribeWrite(q)

SeqSpec == Boot /\ [][NextSeq]_vars

\* The store holding one account whose counter is a value of the column type
\* (integer, nullable) that no operation of MemStorage writes: null
\* (unlimited) or a negative number.  The handlers are the same.
StoredAccount(tier, remaining, reset) ==
  /\ users = [u \in {1} |-> [NewUser("a@x.io", tier) EXCEPT
                               !.requests_remaining = remaining,
                               !.requests_reset = reset]]
  /\ currentId = 2
  /\ passed = [u \in UserIds |-> 0]
  /\ window = [u \in UserIds |-> IF u = 1 THEN Window("", remaining) ELSE NoWindow]

InitStore ==
  /\ plans = PlanConfig
  /\ now = 0
  /\ reqs = EmptyBag
  /\ resp = IdleReq
  /\ budget = MaxIssued
  /\ \E tier \in {"", "gold"}, remaining \in {Null, Some(-1)}, reset \in {Null, Some(DAY_MS)} :
       StoredAccount(tier, remaining, reset)

StoreSpec == InitStore /\ [][NextOnAccounts]_vars

\* Two accounts from registration, no request in flight: account 1 after
\* 5 - remaining passes of the gate, account 2 fresh.
InitPair ==
  /\ plans = PlanConfig
  /\ now = 0
  /\ reqs = EmptyBag
  /\ resp = IdleReq
  /\ budget = MaxIssued
  /\ currentId = 3
  /\ \E remaining \in LowRemaining :
       /\ users = [u \in {1, 2} |->
                    IF u = 1 THEN [NewUser("a@x.io", "") EXCEPT !.requests_remaining = Some(remaining)]
                    ELSE NewUser("b@x.io", "")]
       /\ passed = [u \in UserIds |-> IF u = 1 THEN DefaultRequests - remaining ELSE 0]
       /\ window = [u \in UserIds |-> IF u \in {1, 2} THEN Window("createUser", Some(DefaultRequests))
                                      ELSE NoWindow]

PairSpec == InitPair /\ [][NextOnAccounts]_vars

TypeOK ==
  /\ currentId \in 1..(MaxUsers + 1)
  /\ DOMAIN users \subseteq UserIds
  /\ budget \in 0..SeqIssued
  /\ IsABag(reqs) /\ BagCardinality(reqs) <= MaxInFlight
  /\ \A q \in InFlight : q.pc \notin {"idle", "done"}

\* ------------------------------------------------------------------ claims
\* the requests in flight and the request the latest step has answered
Reqs == InFlight \cup {resp}

\* checkSubscription has read the account of q and has taken its decision
Decided(q) == q.kind = "prompt" /\ q.user # Null /\ q.pc \notin {"idle", "gotUser"}

Remaining(q) == Val(q.user).requests_remaining
ResetAt(q) == Val(q.user).requests_reset
Stored(u) == users[u].requests_remaining
Busy(u) == \E q \in InFlight : InStore(q, u)
Quiescent1 == reqs = EmptyBag

\* C1 (middle clause): every request the gate lets through accounts for
\* exactly one decrement of the stored counter.  For an account whose counter
\* was set to N at registration and that saw no tier change, while no request
\* is at work on it and at most N requests have been let through, the stored
\* counter is N minus the number let through.
C1_NoLostUpdate ==
  \A u \in DOMAIN users :
    (Stored(u) # Null /\ window[u].by = "createUser" /\ ~Busy(u)
       /\ passed[u] <= Val(window[u].amount))
    => Val(Stored(u)) = Val(window[u].amount) - passed[u]

\* C2: a request whose gate read requests_remaining = 0 with requests_reset
\* in the future (later than the present time, hence than the time of the
\* gate) is denied with 429, next() is not called, and the stored counter is
\* still 0.
C2_DeniedAtZero ==
  \A q \in Reqs :
    (Decided(q) /\ Remaining(q) = Some(0) /\ ResetAt(q) # Null /\ Val(ResetAt(q)) > now)
    => q.pc = "done" /\ q.status = 429 /\ ~q.allowed /\ Stored(q.uid) = Some(0)

\* C3: a request whose gate read requests_remaining = 0 with requests_reset
\* in the past at the time of the gate (and a plan for the tier) is not
\* denied, and when it is answered the counter is requestsPerDay - 1 and
\* requests_reset is 24 hours after the time of the gate, hence more than 24
\* hours after the old requests_reset.
C3_ResetAtZero ==
  \A q \in Reqs :
    (Decided(q) /\ Remaining(q) = Some(0) /\ q.due
       /\ getPlanById(Val(q.user).subscription_tier) # Null)
    => /\ q.status # 429
       /\ q.pc = "done" =>
            /\ q.allowed
            /\ Stored(q.uid) = Some(Val(getPlanById(Val(q.user).subscription_tier)).requestsPerDay - 1)
            /\ users[q.uid].requests_reset # Null
            /\ Val(users[q.uid].requests_reset) > Val(ResetAt(q)) + DAY_MS

\* C4: with one request at a time, a request whose gate read
\* requests_remaining = r > 0 is never denied, is let through, and from its
\* write on the stored counter is r - 1.
C4_SinglePassDecrements ==
  \A q \in Reqs :
    (Decided(q) /\ Remaining(q) # Null /\ Val(Remaining(q)) > 0)
    => /\ q.status \notin {401, 404, 429}
       /\ q.pc \in {"adapter", "done"} => q.allowed
       /\ q.pc \in {"updDone", "adapter", "done"} => Stored(q.uid) = Some(Val(Remaining(q)) - 1)

C4_Witness ==
  /\ resp.kind = "prompt" /\ resp.status = 200 /\ resp.user # Null
  /\ Remaining(resp) = Some(1) /\ Stored(resp.uid) = Some(0)

\* C5: for an account created by registration on the free plan and used by
\* one request at a time, at most five requests pass the gate, and once five
\* have passed requests_remaining is 0 and requests_reset is set.
C5_FreshAccountFive ==
  \A u \in DOMAIN users :
    (window[u].by = "createUser" /\ users[u].subscription_tier = "free")
    => /\ passed[u] <= DefaultRequests
       /\ (passed[u] = DefaultRequests /\ Quiescent1)
            => Stored(u) = Some(0) /\ users[u].requests_reset # Null

\* C6: since the counter of an account was last set to an allotment
\* (creation, reset, tier change), the gate has let through at most
\* requestsPerDay requests of the plan of the account's tier.
C6_AtMostRequestsPerDay ==
  \A u \in DOMAIN users :
    LET plan == getPlanById(users[u].subscription_tier)
    IN  plan # Null => passed[u] <= Val(plan).requestsPerDay

\* C7: a non-null requests_remaining is never negative: neither in the store
\* nor in the copy a request of the gate has read.
C7_NeverNegative ==
  /\ \A u \in DOMAIN users : Stored(u) # Null => Val(Stored(u)) >= 0
  /\ \A q \in Reqs :
       (q.kind = "prompt" /\ q.user # Null /\ Remaining(q) # Null) => Val(Remaining(q)) >= 0

\* the gate reads 0 while another request, which has written it, is still
\* at work on the same account
C7_Witness ==
  \E q, s \in InFlight :
    /\ q.kind = "prompt" /\ q.pc = "gotUser" /\ q.user # Null
    /\ Remaining(q) = Some(0)
    /\ s.uid = q.uid /\ s.pc = "updDone"

\* the adapter functions the server imports
Adapters == {"openai", "gemini", "deepseek"}

\* C9: for a request whose provider is not one of the adapters' providers no
\* adapter is invoked, and when its body is valid the answer is 400
\* "Unsupported provider".
C9_UnsupportedProvider ==
  \A q \in Reqs :
    (q.kind = "prompt" /\ q.allowed /\ q.provider \notin Adapters)
    => /\ q.adapter = "" /\ q.pc = "done"
       /\ q.status = 400
       /\ q.valid => q.msg = "Unsupported provider"

C9_Witness ==
  /\ resp.kind = "prompt" /\ resp.provider = "anthropic" /\ resp.valid
  /\ resp.status = 400 /\ resp.msg = "Unsupported provider" /\ resp.adapter = ""

Pipeline == <<"authenticate", "gate", "validate", "dispatch">>
IsPrefix(s, t) == Len(s) <= Len(t) /\ \A i \in 1..Len(s) : s[i] = t[i]
Ran(q, stage) == \E i \in 1..Len(q.stages) : q.stages[i] = stage

\* C10: the stages of a prompt request run in the order authenticate, gate,
\* validate, dispatch; a stage runs only when the stage before it let the
\* request on (a verified token, next() of the gate, a valid body); an
\* adapter is called only after all four.
C10_PipelineOrder ==
  \A q \in Reqs :
    q.kind = "prompt" =>
      /\ IsPrefix(q.stages, Pipeline)
      /\ Ran(q, "gate") => q.authed
      /\ Ran(q, "validate") <=> q.allowed
      /\ q.allowed => Ran(q, "gate") /\ q.uid # 0 /\ q.user # Null /\ ~(q.status \in {401, 403, 404, 429})
      /\ Ran(q, "dispatch") => q.valid
      /\ q.adapter # "" => q.stages = Pipeline /\ q.authed /\ q.allowed /\ q.valid
      /\ q.status \in {401, 403, 404, 429} => ~q.allowed /\ q.adapter = ""
      /\ (q.status = 400 /\ ~q.valid) => ~Ran(q, "dispatch") /\ q.adapter = ""

C10_Witness ==
  /\ resp.kind = "prompt" /\ resp.status = 200 /\ resp.adapter # ""
  /\ resp.stages = Pipeline

\* C8: a request whose gate read requests_remaining = null is let through
\* without a write of the account, whatever other requests are in flight,
\* and a null counter stays null as long as no tier change sets it.
C8_UnlimitedPasses ==
  /\ \A q \in Reqs :
       (Decided(q) /\ Remaining(q) = Null)
       => q.allowed /\ q.pc \in {"adapter", "done"} /\ q.status \notin {404, 429}
  /\ \A u \in DOMAIN users :
       (window[u].by = "" /\ window[u].amount = Null) => Stored(u) = Null

\* two requests of an unlimited account are past the gate at once
C8_Witness ==
  \E q1, q2 \in InFlight :
    /\ q1 # q2 \/ CopiesIn(q1, reqs) >= 2
    /\ q1.uid = q2.uid
    /\ \A q \in {q1, q2} :
         /\ q.pc = "adapter" /\ q.allowed
         /\ Remaining(q) = Null /\ Stored(q.uid) = Null

\* the calls q has made on the user map
Called(q, op) == \E i \in 1..Len(q.ops) : q.ops[i] = op
Wrote(q) == Called(q, "set")
Tier(q) == Val(q.user).subscription_tier

QuotaExceededBody(user) ==
  [subscription_tier |-> user.subscription_tier, next_reset |-> user.requests_reset]

Denials == {401, 404, 429}

\* C13: a request that checkSubscription has denied (401, 404 or 429) has
\* made no write of the user map.
C13_DeniedLeavesStore ==
  \A q \in Reqs :
    (q.kind = "prompt" /\ Ran(q, "gate") /\ q.status \in Denials) => ~Wrote(q)

\* a 429 is answered and the account is as the request read it
C13_Witness ==
  /\ resp.kind = "prompt" /\ resp.status = 429 /\ resp.user # Null
  /\ users[resp.uid] = Val(resp.user)

\* C14: a prompt request that reaches the gate without identity is answered
\* 401 with no call on the user map made, and one whose identity has no
\* account is answered 404 once the gate has its read, with no other call
\* on the user map; next() is called for neither.
C14_NoIdentityNoAccount ==
  \A q \in Reqs :
    (q.kind = "prompt" /\ Ran(q, "gate"))
    => /\ q.uid = 0
            => q.pc = "done" /\ q.status = 401 /\ q.ops = << >> /\ ~q.allowed
       /\ (q.uid # 0 /\ q.user = Null /\ q.pc # "gotUser")
            => q.pc = "done" /\ q.status = 404 /\ q.ops = <<"getUser">> /\ ~q.allowed

\* the gate answers 401 to a request without identity while a request
\* whose identity has no account waits for its read
C14_Witness ==
  /\ resp.kind = "prompt" /\ Ran(resp, "gate") /\ resp.uid = 0 /\ resp.status = 401
  /\ \E q \in InFlight : q.kind = "prompt" /\ q.uid # 0 /\ q.user = Null

\* the request that takes the step: its record is in flight before the step
\* and has one copy less after it
Stepped(q) == q \in InFlight /\ CopiesIn(q, reqs') < CopiesIn(q, reqs)
\* a request record the step has produced
Produced(q) == CopiesIn(q, reqs') > CopiesIn(q, reqs)
\* the record the user map holds for id
Holds(id) == IF id \in DOMAIN users THEN {users[id]} ELSE {}

\* the record and the count of passes of an account change only by a step
\* of a request of that account
OwnWrites ==
  \A u \in DOMAIN users :
    (users'[u] # users[u] \/ passed'[u] # passed[u])
    => \E s \in InFlight : Stepped(s) /\ s.uid = u

\* what a prompt request reads of the user map (the gate's read,
\* updateUser's read) is the record of its own account
OwnReads ==
  \A q \in BagToSet(reqs') :
    (Produced(q) /\ q.kind = "prompt")
    => /\ q.pc = "gotUser" => q.user = Holds(q.uid)
       /\ q.pc = "updWrite" => q.uread = Holds(q.uid)

\* C15: gate passes of different accounts are independent.  In every step
\* a request writes and reads its own account only: nothing a request of
\* account B does enters the decision or the counter of account A.
C15_AccountsIndependent == [][OwnWrites /\ OwnReads]_vars

\* requests of two accounts have both written their decrement and neither
\* has been answered: each account has its own counter less one
C15_Witness ==
  \E q1, q2 \in InFlight :
    /\ q1.uid = 1 /\ q2.uid = 2 /\ q1.pc = "updDone" /\ q2.pc = "updDone"
    /\ Stored(1) = Some(Val(Remaining(q1)) - 1)
    /\ Stored(2) = Some(Val(Remaining(q2)) - 1)
    /\ Stored(1) # Stored(2)

\* s has written the reset of its account and not yet its decrement
BetweenWrites(s) ==
  /\ s.kind = "prompt" /\ Wrote(s)
  /\ \/ s.pc = "updDone" /\ s.cont = "reset"
     \/ s.pc = "updWrite" /\ s.cont = "decrement"

\* the gate answers s with its error response in this step
GateFails(s) ==
  /\ Stepped(s) /\ s.kind = "prompt" /\ ~s.allowed
  /\ resp'.kind = "prompt" /\ resp'.status = 500 /\ ~resp'.allowed

\* no request reads the account of s in this step
Unobserved(s) ==
  \A q \in BagToSet(reqs') :
    ~(Produced(q) /\ q.uid = s.uid /\ q.pc \in {"gotUser", "subGotUser"})

PlansOf(t) == {i \in DOMAIN plans : plans[i].id = t}

\* C17: the registry holds exactly one Plan for each tier identifier and no
\* other Plan, getPlanById returns that Plan for a tier identifier and
\* not-found for any other string, and the list is the one the constructor
\* built, whatever requests the server has handled.
C17_PlanRegistry ==
  /\ \A t \in subscriptionTiers :
       /\ Cardinality(PlansOf(t)) = 1
       /\ getPlanById(t) # Null /\ Val(getPlanById(t)).id = t
       /\ \A i \in PlansOf(t) : getPlanById(t) = Some(plans[i])
  /\ \A i \in DOMAIN plans : plans[i].id \in subscriptionTiers
  /\ \A x \in (RegTiers \cup PlanIds) \ subscriptionTiers : getPlanById(x) = Null
  /\ plans = PlanConfig
  /\ Len(plans) = Cardinality(subscriptionTiers)

\* the plans have been listed on a server whose account has gone through
\* a tier change
C17_Witness ==
  /\ resp.kind = "plans" /\ resp.status = 200
  /\ \E u \in DOMAIN users :
       window[u].by = "updateUserSubscription" /\ users[u].requests_reset # Null

\* C18: the tier of every account is the identifier of exactly one Plan of
\* the registry.
C18_TierHasPlan ==
  \A u \in DOMAIN users : Cardinality(PlansOf(users[u].subscription_tier)) = 1

\* C19: the account a registration has just created (the answer is 201)
\* has the tier "free", requests_reset = null, and requests_remaining equal
\* to the requestsPerDay of the Plan of its tier.
C19_CreatedWithDefaults ==
  (resp.kind = "register" /\ resp.status = 201)
  => LET user == users[resp.uid]
         plan == getPlanById(user.subscription_tier)
     IN  /\ user = Val(resp.user)
         /\ user.subscription_tier = "free"
         /\ user.requests_reset = Null
         /\ plan # Null
         /\ user.requests_remaining = Some(Val(plan).requestsPerDay)

\* createUser calls that have taken their id and not yet stored the account
Creating == {q \in InFlight : q.kind = "register" /\ q.pc = "regHash"}

\* C20: account ids are unique.  The ids of the accounts in the map and of
\* the createUser calls under way are pairwise different ids below
\* currentId, so that no createUser call stores over an account.
C20_UniqueIds ==
  /\ DOMAIN users \subseteq 1..(currentId - 1)
  /\ \A q \in Creating :
       /\ q.uid \in 1..(currentId - 1)
       /\ q.uid \notin DOMAIN users
       /\ CopiesIn(q, reqs) = 1
       /\ \A s \in Creating : s # q => s.uid # q.uid

\* two registrations are in createUser at once
C20_Witness ==
  \E q, s \in Creating : q # s /\ q.uid = 1 /\ s.uid = 2 /\ users = << >>

\* C21: GET /api/models/:provider answers 200 with the provider's list when
\* the provider is one the prompt route dispatches to, and 404 for every
\* other provider.
C21_ModelsOfProvider ==
  resp.kind = "models"
  => IF Dispatchable(resp.provider)
       THEN resp.status = 200 /\ resp.data = [models |-> models[resp.provider]]
       ELSE resp.status = 404

PaidPlans == {plans[i].id : i \in DOMAIN plans} \ {"free"}

\* a step of a create-subscription request: one for a paid plan leaves the
\* user map as it is and, when it answers, answers an error; one that
\* changes the tier of an account changes it to "free"
SubscribeStep ==
  /\ (resp'.kind = "subscribe" /\ resp'.tier \in PaidPlans)
     => (resp'.status >= 400 /\ ~Wrote(resp'))
  /\ \A q \in InFlight :
       (Stepped(q) /\ q.kind = "subscribe")
       => /\ q.tier \in PaidPlans => users' = users
          /\ \A u \in DOMAIN users :
               users'[u].subscription_tier # users[u].subscription_tier
               => users'[u].subscription_tier = "free"

\* C22: POST /api/create-subscription for a paid plan of the registry
\* (basic, premium, enterprise) is answered with an error and leaves the
\* account as it is; the only tier the endpoint ever stores is "free".
C22_OnlyFreeTier == [][SubscribeStep]_vars

\* an account that the endpoint has moved to the free tier is refused the
\* enterprise plan
C22_Witness ==
  /\ resp.kind = "subscribe" /\ resp.tier = "enterprise" /\ resp.msg = "DEMO_MODE"
  /\ window[resp.uid].by = "updateUserSubscription"
  /\ users[resp.uid].subscription_tier = "free"

C25_TierChangeRestores ==
  (resp.kind = "subscribe" /\ resp.status = 200)
  => LET plan == getPlanById(resp.tier) IN
     /\ plan # Null
     /\ users[resp.uid].subscription_tier = resp.tier
     /\ Stored(resp.uid) = Some(Val(plan).requestsPerDay)
     /\ users[resp.uid].requests_reset = Some(now + DAY_MS)

\* an exhausted account of the free tier subscribes to "free" and holds the
\* full allotment again
C25_Witness ==
  /\ resp.kind = "subscribe" /\ resp.status = 200 /\ resp.tier = "free"
  /\ Tier(resp) = "free" /\ Remaining(resp) = Some(0)
  /\ Stored(resp.uid) = Some(DefaultRequests)

\* C26: no two accounts of the user map hold the same email.
C26_UniqueEmails ==
  \A u, v \in DOMAIN users : users[u].email = users[v].email => u = v

\* a step of a prompt request leaves the email and the tier of the
\* request's account as the user map holds them
GateFrame ==
  \A q \in InFlight :
    (Stepped(q) /\ q.kind = "prompt" /\ q.uid \in DOMAIN users)
    => /\ users'[q.uid].email = users[q.uid].email
       /\ users'[q.uid].subscription_tier = users[q.uid].subscription_tier

\* C27: the gate changes at most requests_remaining and requests_reset of
\* the requesting account: no step of a prompt request alters the other
\* fields the user map holds, also when a tier change on the same account
\* falls between the steps of the gate.
C27_GateWritesCounterOnly == [][GateFrame]_vars

\* C28: while no request is in flight, a non-null requests_remaining of an
\* account whose tier has a plan is at most that plan's requestsPerDay.
C28_WithinAllotment ==
  reqs = EmptyBag
  => \A u \in DOMAIN users :
       LET plan == getPlanById(users[u].subscription_tier) IN
       (Stored(u) # Null /\ plan # Null) => Val(Stored(u)) <= Val(plan).requestsPerDay

\* at rest after a tier change and one pass of the gate since
C28_Witness ==
  /\ reqs = EmptyBag
  /\ \E u \in DOMAIN users :
       /\ window[u].by = "updateUserSubscription" /\ passed[u] = 1
       /\ getPlanById(users[u].subscription_tier) # Null
       /\ Stored(u) = Some(DefaultRequests - 1)

\* C29: a request the gate let through on a counter r > 0 and that is then
\* answered 400 (body or provider refused) or 500 (the adapter threw)
\* leaves the counter at r - 1: the decrement stays.
C29_DecrementNotRolledBack ==
  (/\ resp.kind = "prompt" /\ resp.allowed /\ resp.status \in {400, 500}
   /\ Remaining(resp) # Null /\ Val(Remaining(resp)) > 0)
  => Stored(resp.uid) = Some(Val(Remaining(resp)) - 1)

\* the adapter threw after the gate's decrement
C29_Witness ==
  /\ resp.kind = "prompt" /\ resp.allowed /\ resp.status = 500
  /\ resp.msg = "Provider error"
  /\ Remaining(resp) = Some(DefaultRequests)
  /\ Stored(resp.uid) = Some(DefaultRequests - 1)

====
